---- MODULE Spec2Model ----
(***************************************************************************)
(* Model of docker/download-plugins-manifest.py: the plugin resolution and *)
(* installation pipeline (catalog fetch, version selection, download,      *)
(* extraction, descriptor write, environment fact, tally, exit status).    *)
(*                                                                         *)
(* Strings whose content the code inspects (targetAbi, asset names) are    *)
(* sequences of one-character strings; all other strings are opaque.       *)
(***************************************************************************)
EXTENDS Integers, Sequences, FiniteSets, TLC

(***************************************************************************)
(* Bounds                                                                  *)
(***************************************************************************)
\* longest release list of a catalog record (selection specification)
MaxVersions == 2
\* most files in an unpacked plugin directory (descriptor specification)
MaxFiles == 2

(***************************************************************************)
(* Version strings and parse_version                                       *)
(***************************************************************************)
Digits == <<"0", "1", "2", "3", "4", "5", "6", "7", "8", "9">>

IsDigit(c) == \E i \in 1..Len(Digits) : Digits[i] = c

DigitVal(c) == (CHOOSE i \in 1..Len(Digits) : Digits[i] = c) - 1

\* str.split('.'): the pieces between the dots, empty pieces included
RECURSIVE split(_, _, _)
split(s, piece, acc) ==
    IF s = <<>> THEN Append(acc, piece)
    ELSE IF Head(s) = "." THEN split(Tail(s), <<>>, Append(acc, piece))
    ELSE split(Tail(s), Append(piece, Head(s)), acc)

\* int(x) raises ValueError on an empty piece or a non-digit
IntOk(piece) == piece # <<>> /\ \A i \in 1..Len(piece) : IsDigit(piece[i])

RECURSIVE IntOf(_)
IntOf(piece) ==
    IF piece = <<>> THEN 0
    ELSE 10 * IntOf(SubSeq(piece, 1, Len(piece) - 1)) + DigitVal(piece[Len(piece)])

\* the string compared character by character (what a comparison of the raw
\* strings would use as key)
parse_version_lexicographic(version_str) ==
    [ok |-> TRUE,
     tuple |-> [i \in 1..Len(version_str) |->
                  IF IsDigit(version_str[i]) THEN DigitVal(version_str[i]) + 1 ELSE 0]]

\* parse_version: tuple(int(x) for x in version_str.split('.'));
\* ok = FALSE stands for the ValueError int() raises
parse_version(version_str) ==
    LET pieces == split(version_str, <<>>, <<>>)
    IN  IF \A i \in 1..Len(pieces) : IntOk(pieces[i])
        THEN [ok |-> TRUE, tuple |-> [i \in 1..Len(pieces) |-> IntOf(pieces[i])]]
        ELSE [ok |-> FALSE, tuple |-> <<>>]

\* Python's tuple order: first differing component decides, a proper prefix
\* is smaller
TupleLT(a, b) ==
    \/ \E i \in 1..Len(a) :
          /\ i <= Len(b)
          /\ a[i] < b[i]
          /\ \A j \in 1..(i - 1) : a[j] = b[j]
    \/ /\ Len(a) < Len(b)
       /\ \A j \in 1..Len(a) : a[j] = b[j]

(***************************************************************************)
(* Catalogs                                                                *)
(***************************************************************************)
Abi_10_9   == <<"1", "0", ".", "9", ".", "0", ".", "0">>
Abi_10_10  == <<"1", "0", ".", "1", "0", ".", "0", ".", "0">>
Abi_10_11  == <<"1", "0", ".", "1", "1", ".", "0", ".", "0">>
Abi_10_x   == <<"1", "0", ".", "x">>

AbiStrings == {Abi_10_9, Abi_10_10, Abi_10_11, Abi_10_x}

\* a release entry; its version string names its position in the list
ReleaseEntry(i, abi) ==
    [version |-> "1.0.0." \o ToString(i), targetAbi |-> abi,
     sourceUrl |-> "https://repo/" \o ToString(i) \o ".zip"]

NoEntry == [version |-> "", targetAbi |-> <<>>, sourceUrl |-> ""]

\* all release lists of a given length over AbiStrings
VersionLists(n) ==
    {[i \in 1..n |-> ReleaseEntry(i, f[i])] : f \in [1..n -> AbiStrings]}

\* a catalog record: guid, and the 'versions' key (possibly missing)
CatalogRecord(g, has, vs) == [guid |-> g, hasVersions |-> has, versions |-> vs]

None == [kind |-> "None", items |-> <<>>]

Manifest(items) == [kind |-> "list", items |-> items]

\* Python truthiness of a manifest: None and the empty list are falsy
Falsy(m) == m.kind = "None" \/ m.items = <<>>

(***************************************************************************)
(* get_highest_version                                                     *)
(***************************************************************************)
\* insert e before the first element whose key is not greater (equal keys end
\* in reverse order)
RECURSIVE InsertDescending_unstable(_, _)
InsertDescending_unstable(e, s) ==
    IF s = <<>> THEN <<e>>
    ELSE IF ~TupleLT(parse_version(e.targetAbi).tuple,
                     parse_version(Head(s).targetAbi).tuple)
         THEN <<e>> \o s
         ELSE <<Head(s)>> \o InsertDescending_unstable(e, Tail(s))

\* insert e behind every element whose key is not smaller (stable, descending)
RECURSIVE InsertDescending(_, _)
InsertDescending(e, s) ==
    IF s = <<>> THEN <<e>>
    ELSE IF TupleLT(parse_version(Head(s).targetAbi).tuple,
                    parse_version(e.targetAbi).tuple)
         THEN <<e>> \o s
         ELSE <<Head(s)>> \o InsertDescending(e, Tail(s))

\* sorted(versions, key=..., reverse=True): stable, descending by key
RECURSIVE sorted_versions(_)
sorted_versions(versions) ==
    IF versions = <<>> THEN <<>>
    ELSE InsertDescending(versions[Len(versions)],
                          sorted_versions(SubSeq(versions, 1, Len(versions) - 1)))

\* index of the first record with p.get('guid') == guid, 0 when there is none
FindPlugin(items, guid) ==
    IF \E i \in 1..Len(items) : items[i].guid = guid
    THEN CHOOSE i \in 1..Len(items) :
            /\ items[i].guid = guid
            /\ \A j \in 1..(i - 1) : items[j].guid # guid
    ELSE 0

\* get_highest_version without the 'if not versions' test: sorted_versions[0]
\* of an empty list raises IndexError
get_highest_version_unguarded(manifest, guid) ==
    LET idx      == FindPlugin(manifest.items, guid)
        plugin   == manifest.items[idx]
        versions == IF plugin.hasVersions THEN plugin.versions ELSE <<>>
    IN  IF idx = 0 THEN [status |-> "None", best |-> NoEntry]
        ELSE IF versions = <<>> THEN [status |-> "Raise", best |-> NoEntry]
        ELSE IF \E i \in 1..Len(versions) : ~parse_version(versions[i].targetAbi).ok
             THEN [status |-> "Raise", best |-> NoEntry]
        ELSE [status |-> "Found", best |-> sorted_versions(versions)[1]]

\* status "None": (None, None); "Raise": an exception leaves the function;
\* "Found": (best, plugin)
get_highest_version(manifest, guid) ==
    LET idx      == FindPlugin(manifest.items, guid)
        plugin   == manifest.items[idx]
        versions == IF plugin.hasVersions THEN plugin.versions ELSE <<>>
    IN  IF idx = 0 THEN [status |-> "None", best |-> NoEntry]
        ELSE IF versions = <<>> THEN [status |-> "None", best |-> NoEntry]
        ELSE IF \E i \in 1..Len(versions) : ~parse_version(versions[i].targetAbi).ok
             THEN [status |-> "Raise", best |-> NoEntry]
        ELSE [status |-> "Found", best |-> sorted_versions(versions)[1]]

(***************************************************************************)
(* The installation request of main and the inputs of a run                *)
(***************************************************************************)
\* the installers main calls, in call order
Plugins == <<"FileTransformation", "PluginPages", "CustomTabs", "Enhanced", "Meilisearch">>

PluginNames == {Plugins[i] : i \in 1..Len(Plugins)}

\* installed by install_plugin from a catalog
CatalogPlugins == {"FileTransformation", "PluginPages", "Meilisearch"}

\* installed from a hosting-API latest release
HostingPlugins == {"CustomTabs", "Enhanced"}

\* the plugins main installs from the primary (IAmParadox) manifest
PrimaryPlugins == {"FileTransformation", "PluginPages"}

Guid(p) ==
    CASE p = "FileTransformation" -> "5e87cc92-571a-4d8d-8d98-d2d4147f9f90"
      [] p = "PluginPages"        -> "5b6550fa-a014-4f4c-8a2c-59a43680ac6d"
      [] p = "CustomTabs"         -> "fbacd0b6-fd46-4a05-b0a4-2045d6a135b0"
      [] p = "Enhanced"           -> "f69e946a-4b3c-4e9a-8f0a-8d7c1b2c4d9b"
      [] p = "Meilisearch"        -> "974395db-b31d-46a2-bc86-ef9aa5ac04dd"

\* var_name_map, and the names the other installers write
EnvVarName(p) ==
    CASE p = "FileTransformation" -> "FILETRANS_VERSION"
      [] p = "PluginPages"        -> "PLUGINPAGES_VERSION"
      [] p = "CustomTabs"         -> "CUSTOMTABS_VERSION"
      [] p = "Enhanced"           -> "ENHANCED_VERSION"
      [] p = "Meilisearch"        -> "MEILISEARCH_PLUGIN_VERSION"

\* release lists a catalog of a run may carry for a requested plugin
RunVersionLists ==
    {<<>>,
     <<ReleaseEntry(1, Abi_10_9), ReleaseEntry(2, Abi_10_11)>>,
     <<ReleaseEntry(1, Abi_10_x)>>}

\* the record of guid g in a catalog: absent, without 'versions', or with a list
RecordOptions(g) ==
    {<<>>, <<CatalogRecord(g, FALSE, <<>>)>>}
        \cup {<<CatalogRecord(g, TRUE, vl)>> : vl \in RunVersionLists}

\* what download_manifest(MANIFEST_URL) can return
PrimaryManifests ==
    {None} \cup {Manifest(a \o b) : a \in RecordOptions(Guid("FileTransformation")),
                                    b \in RecordOptions(Guid("PluginPages"))}

\* what download_manifest(MEILISEARCH_MANIFEST_URL) can return
MeilisearchManifests ==
    {None} \cup {Manifest(b) : b \in RecordOptions(Guid("Meilisearch"))}

\* assets of a hosting release
Asset_zip_a == [name |-> <<"a", ".", "z", "i", "p">>, browser_download_url |-> "https://gh/a.zip"]
Asset_zip_b == [name |-> <<"b", ".", "z", "i", "p">>, browser_download_url |-> "https://gh/b.zip"]
Asset_txt   == [name |-> <<"n", ".", "t", "x", "t">>, browser_download_url |-> "https://gh/n.txt"]

\* str.endswith
endswith(s, suffix) ==
    /\ Len(s) >= Len(suffix)
    /\ SubSeq(s, Len(s) - Len(suffix) + 1, Len(s)) = suffix

DotZip == <<".", "z", "i", "p">>

NoRelease == [ok |-> FALSE, tag_name |-> "", assets |-> <<>>]

HostingRelease(tag, assets) == [ok |-> TRUE, tag_name |-> tag, assets |-> assets]

\* what the GET of releases/latest can yield for CustomTabs (ok = FALSE: the
\* request, the JSON parse or release_info['tag_name'] raised)
CustomTabsReleases ==
    {NoRelease,
     HostingRelease("v11.0", <<Asset_txt>>),
     HostingRelease("v11.0", <<Asset_txt, Asset_zip_a, Asset_zip_b>>)}

\* what the GET of releases/latest can yield for Enhanced
EnhancedReleases ==
    {NoRelease, HostingRelease("v11.1", <<Asset_zip_a>>)}

\* the asset scan without its break: index of the last asset whose name ends
\* with '.zip'
LastZipAsset(assets) ==
    IF \E i \in 1..Len(assets) : endswith(assets[i].name, DotZip)
    THEN CHOOSE i \in 1..Len(assets) :
            /\ endswith(assets[i].name, DotZip)
            /\ \A j \in (i + 1)..Len(assets) : ~endswith(assets[j].name, DotZip)
    ELSE 0

\* the loop over release_info.get('assets', []): index of the first asset whose
\* name ends with '.zip', 0 when there is none
FirstZipAsset(assets) ==
    IF \E i \in 1..Len(assets) : endswith(assets[i].name, DotZip)
    THEN CHOOSE i \in 1..Len(assets) :
            /\ endswith(assets[i].name, DotZip)
            /\ \A j \in 1..(i - 1) : ~endswith(assets[j].name, DotZip)
    ELSE 0

\* /etc/environment before the run
InitialEnvironment == <<[key |-> "PATH", value |-> "/usr/local/bin"]>>

(***************************************************************************)
(* State                                                                   *)
(***************************************************************************)
VARIABLES
    pc,              \* position of main: fetch, install, summary, exited
    cur,             \* index in Plugins of the installer main is in
    step,            \* position inside that installer
    manifest,        \* main's manifest
    meili_manifest,  \* install_meilisearch_plugin's manifest
    release_info,    \* per hosting plugin: the release fetched
    version_info,    \* per plugin: the release entry the attempt installs
    download_url,    \* per plugin: the URL handed to download_file
    meta_json,       \* per plugin: the descriptor written into target_dir
    target_dir,      \* per plugin: the path of target_dir, once it was made
    fetch_log,       \* the download_manifest calls so far, in order
    scratch,         \* per plugin: temp_zip exists
    dir,             \* per plugin: state of target_dir
    env,             \* lines of /etc/environment
    success_count,
    fail_count,
    outcome,         \* per plugin: how its installer ended
    trace,           \* per plugin: the steps its installer ran, in order
    exit_code,       \* exit status of the process, -1 while it runs
    sel_manifest,    \* selection specification: the catalog
    sel_guid,        \* selection specification: the identity asked for
    sel_result,      \* selection specification: what get_highest_version gave
    syn_metadata,    \* descriptor specification: plugin_metadata
    syn_version_info, \* descriptor specification: version_info
    syn_target,      \* descriptor specification: target_dir
    syn_listing,     \* descriptor specification: the files of target_dir
    syn_result       \* descriptor specification: the meta dictionary built

vars == <<pc, cur, step, manifest, meili_manifest, release_info, version_info,
          download_url, meta_json, target_dir, fetch_log, scratch, dir, env,
          success_count, fail_count, outcome, trace, exit_code,
          sel_manifest, sel_guid, sel_result,
          syn_metadata, syn_version_info, syn_target, syn_listing, syn_result>>

\* the inputs of the descriptor specification
syn_inputs == <<syn_metadata, syn_version_info, syn_target, syn_listing>>

\* what a run leaves alone: the variables of the other specifications
sel_vars == <<sel_manifest, sel_guid, sel_result, syn_inputs, syn_result>>

\* what only a run changes
run_vars == <<pc, cur, step, manifest, meili_manifest, release_info, version_info,
              download_url, meta_json, target_dir, fetch_log, scratch, dir, env,
              success_count, fail_count, outcome, trace, exit_code>>

Pending == [status |-> "Pending", best |-> NoEntry]

\* no meta dictionary
NoMeta ==
    [category |-> "", changelog |-> "", description |-> "", guid |-> "", name |-> "",
     overview |-> "", owner |-> "", targetAbi |-> <<>>, timestamp |-> "",
     version |-> "", status |-> "", autoUpdate |-> FALSE, imagePath |-> <<>>,
     assemblies |-> <<>>]

\* no meta.json in target_dir
NoDescriptor == [written |-> FALSE, meta |-> NoMeta]

\* the values of the variables of the other specifications during a run
IdleSel ==
    /\ sel_manifest = None
    /\ sel_guid = ""
    /\ sel_result = Pending

IdleSyn ==
    /\ syn_metadata = <<>>
    /\ syn_version_info = <<>>
    /\ syn_target = <<>>
    /\ syn_listing = <<>>
    /\ syn_result = NoMeta

\* the state of a run before main starts
IdleRun ==
    /\ cur = 1
    /\ step = "none"
    /\ manifest = None
    /\ meili_manifest = None
    /\ release_info = [p \in PluginNames |-> NoRelease]
    /\ version_info = [p \in PluginNames |-> NoEntry]
    /\ download_url = [p \in PluginNames |-> ""]
    /\ meta_json = [p \in PluginNames |-> NoDescriptor]
    /\ target_dir = [p \in PluginNames |-> <<>>]
    /\ fetch_log = <<>>
    /\ scratch = [p \in PluginNames |-> FALSE]
    /\ dir = [p \in PluginNames |-> "absent"]
    /\ env = InitialEnvironment
    /\ success_count = 0
    /\ fail_count = 0
    /\ outcome = [p \in PluginNames |-> "NotAttempted"]
    /\ trace = [p \in PluginNames |-> <<>>]
    /\ exit_code = -1

\* where an installer starts
FirstStep(p) ==
    CASE p \in PrimaryPlugins  -> "select"
      [] p \in HostingPlugins  -> "release"
      [] p = "Meilisearch"     -> "manifest"

Init ==
    /\ pc = "fetch"
    /\ IdleRun
    /\ IdleSel
    /\ IdleSyn

(***************************************************************************)
(* Reading the state                                                       *)
(***************************************************************************)
\* the installer of p ran the step that logs event
InTrace(p, event) == \E i \in 1..Len(trace[p]) : trace[p][i] = event

\* the installer of p has returned to main, or an exception has left it
Returned(p) == outcome[p] # "NotAttempted"

\* the lines of /etc/environment written for p
FactLines(p) == {i \in 1..Len(env) : env[i].key = EnvVarName(p)}

\* the lines appended to /etc/environment since the run began
Appended == Len(env) - Len(InitialEnvironment)

\* position of p in the request order
Position(p) == CHOOSE i \in 1..Len(Plugins) : Plugins[i] = p

(***************************************************************************)
(* Leaving an installer                                                    *)
(***************************************************************************)
\* the installer of Plugins[cur] returns result to main, which counts it and
\* goes on to the next installer or to the summary
Return(result, label) ==
    /\ outcome' = [outcome EXCEPT ![Plugins[cur]] = label]
    /\ success_count' = IF result THEN success_count + 1 ELSE success_count
    /\ fail_count' = IF result THEN fail_count ELSE fail_count + 1
    /\ IF cur = Len(Plugins)
       THEN /\ pc' = "summary"
            /\ cur' = cur
            /\ step' = "none"
       ELSE /\ pc' = "install"
            /\ cur' = cur + 1
            /\ step' = FirstStep(Plugins[cur + 1])
    /\ UNCHANGED exit_code

\* an exception leaves the installer of Plugins[cur]; nothing in main catches
\* it, the interpreter prints the traceback and exits with status 1
Raise ==
    /\ outcome' = [outcome EXCEPT ![Plugins[cur]] = "Raised"]
    /\ pc' = "exited"
    /\ step' = "none"
    /\ exit_code' = 1
    /\ UNCHANGED <<cur, success_count, fail_count>>

\* the installer of Plugins[cur] goes on to its next step
Goto(next) ==
    /\ step' = next
    /\ UNCHANGED <<pc, cur, outcome, success_count, fail_count, exit_code>>

Log(event) == trace' = [trace EXCEPT ![Plugins[cur]] = Append(@, event)]


(***************************************************************************)
(* Helpers of the installers                                               *)
(***************************************************************************)
\* download_file: the outcome o of the transfer is "ok", "urlopen_failed" (the
\* request or the open of dest_path raised: dest_path untouched) or
\* "read_failed" (response.read() raised after open(dest_path, 'wb') created
\* the file).  Gives the return value and whether dest_path exists afterwards.
download_file(o, existed) ==
    [ok |-> o = "ok", exists |-> existed \/ o \in {"ok", "read_failed"}]

DownloadOutcomes == {"ok", "urlopen_failed", "read_failed"}

\* zipfile.ZipFile(...).extractall: "ok", "bad_archive" (nothing extracted) or
\* "partial" (raised after some members were written)
ExtractOutcomes == {"ok", "bad_archive", "partial"}

\* open('/etc/environment', 'w') in place of 'a': the file is truncated
write_environment_truncating(lines, key, version) ==
    <<[key |-> key, value |-> version]>>

\* with open('/etc/environment', 'a') as f: f.write(f"{key}={version}\n")
write_environment(lines, key, version) ==
    Append(lines, [key |-> key, value |-> version])

(***************************************************************************)
(* find_image_file and create_meta_json                                    *)
(***************************************************************************)
\* dict.get(key, default); a dict is a function whose domain is its keys
get(d, key, default) == IF key \in DOMAIN d THEN d[key] ELSE default

\* str.startswith
startswith(s, prefix) ==
    /\ Len(s) >= Len(prefix)
    /\ SubSeq(s, 1, Len(prefix)) = prefix

\* str.replace(old, new): every non-overlapping occurrence, left to right
RECURSIVE replace(_, _, _)
replace(s, old, new) ==
    IF s = <<>> THEN <<>>
    ELSE IF startswith(s, old)
         THEN new \o replace(SubSeq(s, Len(old) + 1, Len(s)), old, new)
         ELSE <<Head(s)>> \o replace(Tail(s), old, new)

JellyfinPlugins == <<"/", "j", "e", "l", "l", "y", "f", "i", "n", "/", "p", "l", "u", "g", "i", "n", "s">>

ConfigPlugins == <<"/", "c", "o", "n", "f", "i", "g", "/", "p", "l", "u", "g", "i", "n", "s">>

\* the extensions with jpg tried before png
image_extensions_jpg_first ==
    <<<<".", "j", "p", "g">>, <<".", "p", "n", "g">>, <<".", "j", "p", "e", "g">>, <<".", "s", "v", "g">>, <<".", "g", "i", "f">>>>

\* image_extensions, without the leading '*'
image_extensions ==
    <<<<".", "p", "n", "g">>, <<".", "j", "p", "g">>, <<".", "j", "p", "e", "g">>, <<".", "s", "v", "g">>, <<".", "g", "i", "f">>>>

\* glob of '*' + suffix over one directory: the name ends with the suffix and
\* does not begin with a dot (glob leaves hidden files to patterns that begin
\* with a dot)
glob_match(name, suffix) ==
    /\ endswith(name, suffix)
    /\ ~startswith(name, <<".">>)

\* glob.glob(str(target_dir / ext)): the matching names in listing order
RECURSIVE glob(_, _)
glob(listing, suffix) ==
    IF listing = <<>> THEN <<>>
    ELSE IF glob_match(Head(listing), suffix)
         THEN <<Head(listing)>> \o glob(Tail(listing), suffix)
         ELSE glob(Tail(listing), suffix)

\* the loop of find_image_file from extension k on
RECURSIVE find_image_from(_, _, _)
find_image_from(target, listing, k) ==
    IF k > Len(image_extensions) THEN <<>>
    ELSE LET matches == glob(listing, image_extensions[k])
         IN  IF matches # <<>>
             THEN replace(target \o <<"/">> \o matches[1], JellyfinPlugins, ConfigPlugins)
             ELSE find_image_from(target, listing, k + 1)

\* find_image_file(target_dir); listing is the directory in listing order,
\* the empty sequence stands for ""
find_image_file(target, listing) == find_image_from(target, listing, 1)

\* create_meta_json with '' where the code falls back to plugin_name
create_meta_json_no_fallback(plugin_metadata, vinfo, plugin_name, image_path) ==
    [category    |-> get(plugin_metadata, "category", "General"),
     changelog   |-> get(vinfo, "changelog", ""),
     description |-> get(plugin_metadata, "description", ""),
     guid        |-> get(plugin_metadata, "guid", ""),
     name        |-> get(plugin_metadata, "name", ""),
     overview    |-> get(plugin_metadata, "overview", ""),
     owner       |-> get(plugin_metadata, "owner", ""),
     targetAbi   |-> get(vinfo, "targetAbi", Abi_10_11),
     timestamp   |-> get(vinfo, "timestamp", ""),
     version     |-> get(vinfo, "version", ""),
     status      |-> "Active",
     autoUpdate  |-> TRUE,
     imagePath   |-> image_path,
     assemblies  |-> <<>>]

\* the meta dictionary of create_meta_json
create_meta_json(plugin_metadata, vinfo, plugin_name, image_path) ==
    [category    |-> get(plugin_metadata, "category", "General"),
     changelog   |-> get(vinfo, "changelog", ""),
     description |-> get(plugin_metadata, "description", ""),
     guid        |-> get(plugin_metadata, "guid", ""),
     name        |-> get(plugin_metadata, "name", plugin_name),
     overview    |-> get(plugin_metadata, "overview", ""),
     owner       |-> get(plugin_metadata, "owner", ""),
     targetAbi   |-> get(vinfo, "targetAbi", Abi_10_11),
     timestamp   |-> get(vinfo, "timestamp", ""),
     version     |-> get(vinfo, "version", ""),
     status      |-> "Active",
     autoUpdate  |-> TRUE,
     imagePath   |-> image_path,
     assemblies  |-> <<>>]

\* the plugin_metadata an installer hands to create_meta_json: the catalog
\* record (the records of a run carry the guid only) or the installer's dict
PluginMetadata(p) ==
    CASE p = "CustomTabs" ->
           [guid |-> Guid(p), name |-> "Custom Tabs",
            description |-> "Allows adding custom tabs to the Jellyfin web interface.",
            overview |-> "Add custom tabs to Jellyfin.",
            owner |-> "soultaco83", category |-> "General"]
      [] p = "Enhanced" ->
           [guid |-> Guid(p), name |-> "Jellyfin Enhanced",
            description |-> "A combination of the Jellyfin Enhanced and Jellyfin Elsewhere userscripts",
            overview |-> "Jellyfin Enhanced and Jellyfin Elsewhere for a better Jellyfin experience.",
            owner |-> "n00bcodr", category |-> "General"]
      [] OTHER -> [guid |-> Guid(p)]

\* the version_info an installer hands to create_meta_json (the releases of
\* the model carry neither 'body' nor 'published_at')
VersionInfo(p, vinfo) ==
    CASE p = "CustomTabs" ->
           [version |-> vinfo.version, targetAbi |-> Abi_10_11,
            changelog |-> "Soultaco83 change for master branch compatiblity",
            timestamp |-> ""]
      [] p = "Enhanced" ->
           [version |-> vinfo.version, targetAbi |-> Abi_10_11,
            changelog |-> "", timestamp |-> ""]
      [] OTHER -> vinfo

\* what the archives of a run unpack to, in listing order
\* file names a plugin archive or directory may hold
File_icon_png   == <<"i", "c", "o", "n", ".", "p", "n", "g">>
File_banner_jpg == <<"b", "a", "n", "n", "e", "r", ".", "j", "p", "g">>
File_cover_jpeg == <<"c", "o", "v", "e", "r", ".", "j", "p", "e", "g">>
File_logo_svg   == <<"l", "o", "g", "o", ".", "s", "v", "g">>
File_anim_gif   == <<"a", "n", "i", "m", ".", "g", "i", "f">>
File_readme_txt == <<"r", "e", "a", "d", "m", "e", ".", "t", "x", "t">>
File_thumb_png  == <<".", "t", "h", "u", "m", "b", ".", "p", "n", "g">>
File_plugin_dll == <<"p", "l", "u", "g", "i", "n", ".", "d", "l", "l">>

ArchiveListing == <<File_banner_jpg, File_plugin_dll, File_icon_png>>

\* Path(plugin_dir) / f"{plugin_name}_{version}" under the default plugin_dir;
\* the last component is kept as one element
TargetDir(p, version) == JellyfinPlugins \o <<"/", p \o "_" \o version>>

\* meta.json as an installer's call of create_meta_json writes it
WrittenDescriptor(p) ==
    [written |-> TRUE,
     meta |-> create_meta_json(PluginMetadata(p), VersionInfo(p, version_info[p]), p,
                               find_image_file(target_dir[p], ArchiveListing))]

\* the entry of fetch_log for a call of download_manifest: the URL and the
\* installers that have started by then
FetchEntry(url) == [url |-> url, started |-> {p \in PluginNames : trace[p] # <<>>}]

\* the catalog install_plugin is handed for plugin p
CatalogOf(p) == IF p = "Meilisearch" THEN meili_manifest ELSE manifest

(***************************************************************************)
(* main, up to the first installer                                         *)
(***************************************************************************)
\* plugin_dir is created (taken to succeed), then
\* manifest = download_manifest(MANIFEST_URL); 'if manifest:' guards the loop
\* over FileTransformation and PluginPages
main_download_manifest ==
    /\ pc = "fetch"
    /\ fetch_log' = Append(fetch_log, FetchEntry("MANIFEST_URL"))
    /\ \E m \in PrimaryManifests :
          /\ manifest' = m
          /\ pc' = "install"
          /\ cur' = IF Falsy(m) THEN 3 ELSE 1
          /\ step' = IF Falsy(m) THEN FirstStep(Plugins[3]) ELSE FirstStep(Plugins[1])
    /\ UNCHANGED <<meili_manifest, release_info, version_info, download_url,
                   meta_json, scratch, dir, env, success_count, fail_count,
                   outcome, trace, exit_code, sel_vars,
                   target_dir>>

\* the summary and sys.exit(0) on both branches
main_summary ==
    /\ pc = "summary"
    /\ pc' = "exited"
    /\ exit_code' = 0
    /\ UNCHANGED <<cur, step, manifest, meili_manifest, release_info, version_info,
                   download_url, meta_json, scratch, dir, env, success_count,
                   fail_count, outcome, trace, sel_vars,
                   target_dir, fetch_log>>

(***************************************************************************)
(* install_meilisearch_plugin and install_plugin                           *)
(***************************************************************************)
\* install_meilisearch_plugin reading the primary catalog source again
install_meilisearch_plugin_refetch ==
    /\ pc = "install"
    /\ step = "manifest"
    /\ fetch_log' = Append(fetch_log, FetchEntry("MANIFEST_URL"))
    /\ \E m \in MeilisearchManifests :
          /\ meili_manifest' = m
          /\ IF Falsy(m)
             THEN Return(FALSE, "Unreachable") /\ Log("manifest_failed")
             ELSE Goto("select") /\ Log("manifest")
    /\ UNCHANGED <<manifest, release_info, version_info, download_url, meta_json,
                   scratch, dir, env, sel_vars,
                   target_dir>>

install_meilisearch_plugin ==
    /\ pc = "install"
    /\ step = "manifest"
    /\ fetch_log' = Append(fetch_log, FetchEntry("MEILISEARCH_MANIFEST_URL"))
    /\ \E m \in MeilisearchManifests :
          /\ meili_manifest' = m
          /\ IF Falsy(m)
             THEN Return(FALSE, "Unreachable") /\ Log("manifest_failed")
             ELSE Goto("select") /\ Log("manifest")
    /\ UNCHANGED <<manifest, release_info, version_info, download_url, meta_json,
                   scratch, dir, env, sel_vars,
                   target_dir>>

\* get_highest_version and the reads of version_info, outside any try
install_plugin_select ==
    /\ pc = "install"
    /\ step = "select"
    /\ LET p == Plugins[cur]
           r == get_highest_version(CatalogOf(p), Guid(p))
       IN  CASE r.status = "Raise" ->
                  /\ Raise /\ Log("select_raised")
                  /\ UNCHANGED <<version_info, download_url>>
             [] r.status = "None" ->
                  /\ Return(FALSE, "NotFound") /\ Log("select_notfound")
                  /\ UNCHANGED <<version_info, download_url>>
             [] r.status = "Found" ->
                  /\ Goto("download") /\ Log("select")
                  /\ version_info' = [version_info EXCEPT ![p] = r.best]
                  /\ download_url' = [download_url EXCEPT ![p] = r.best.sourceUrl]
    /\ UNCHANGED <<manifest, meili_manifest, release_info, meta_json, scratch, dir,
                   env, sel_vars,
                   target_dir, fetch_log>>

\* install_download without its early return
install_download_unchecked ==
    /\ pc = "install"
    /\ step = "download"
    /\ LET p == Plugins[cur]
       IN  \E o \in DownloadOutcomes :
              LET d == download_file(o, scratch[p])
              IN  /\ scratch' = [scratch EXCEPT ![p] = d.exists]
                  /\ Goto("mkdir")
                  /\ Log(IF d.ok THEN "download" ELSE "download_failed")
    /\ UNCHANGED <<manifest, meili_manifest, release_info, version_info,
                   download_url, meta_json, dir, env, sel_vars,
                   target_dir, fetch_log>>

\* if not download_file(...): return False -- the same in every installer
install_download ==
    /\ pc = "install"
    /\ step = "download"
    /\ LET p == Plugins[cur]
       IN  \E o \in DownloadOutcomes :
              LET d == download_file(o, scratch[p])
              IN  /\ scratch' = [scratch EXCEPT ![p] = d.exists]
                  /\ IF d.ok
                     THEN Goto("mkdir") /\ Log("download")
                     ELSE Return(FALSE, "DownloadFailed") /\ Log("download_failed")
    /\ UNCHANGED <<manifest, meili_manifest, release_info, version_info,
                   download_url, meta_json, dir, env, sel_vars,
                   target_dir, fetch_log>>

\* target_dir.mkdir(parents=True, exist_ok=True), before the try
install_plugin_mkdir ==
    /\ pc = "install"
    /\ step = "mkdir"
    /\ Plugins[cur] \in CatalogPlugins
    /\ LET p == Plugins[cur]
       IN  \E ok \in BOOLEAN :
              IF ok
              THEN /\ dir' = [dir EXCEPT ![p] = IF @ = "absent" THEN "empty" ELSE @]
                   /\ target_dir' = [target_dir EXCEPT ![p] =
                                        TargetDir(p, version_info[p].version)]
                   /\ Goto("extract") /\ Log("mkdir")
              ELSE /\ UNCHANGED <<dir, target_dir>>
                   /\ Raise /\ Log("mkdir_raised")
    /\ UNCHANGED <<manifest, meili_manifest, release_info, version_info,
                   download_url, meta_json, scratch, env, sel_vars,
                   fetch_log>>

\* extractall and os.remove(temp_zip) in the try; the except branch removes
\* target_dir and temp_zip
install_plugin_extract ==
    /\ pc = "install"
    /\ step = "extract"
    /\ Plugins[cur] \in CatalogPlugins
    /\ LET p == Plugins[cur]
       IN  \E o \in ExtractOutcomes :
              /\ scratch' = [scratch EXCEPT ![p] = FALSE]
              /\ IF o = "ok"
                 THEN /\ dir' = [dir EXCEPT ![p] = "artifact"]
                      /\ Goto("meta") /\ Log("extract")
                 ELSE /\ dir' = [dir EXCEPT ![p] = "absent"]
                      /\ Return(FALSE, "ExtractFailed") /\ Log("extract_failed")
    /\ UNCHANGED <<manifest, meili_manifest, release_info, version_info,
                   download_url, meta_json, env, sel_vars,
                   target_dir, fetch_log>>

\* an installer that gives up when create_meta_json returns False
install_create_meta_json_checked ==
    /\ pc = "install"
    /\ step = "meta"
    /\ LET p == Plugins[cur]
       IN  \E ok \in BOOLEAN :
              IF ok
              THEN /\ meta_json' = [meta_json EXCEPT ![p] = WrittenDescriptor(p)]
                   /\ dir' = [dir EXCEPT ![p] = "full"]
                   /\ Goto("fact") /\ Log("meta")
              ELSE /\ UNCHANGED <<meta_json, dir>>
                   /\ Return(FALSE, "WriteFailed") /\ Log("meta_failed")
    /\ UNCHANGED <<manifest, meili_manifest, release_info, version_info,
                   download_url, scratch, env, sel_vars,
                   target_dir, fetch_log>>

\* create_meta_json: its return value is ignored by every installer
install_create_meta_json ==
    /\ pc = "install"
    /\ step = "meta"
    /\ LET p == Plugins[cur]
       IN  \E ok \in BOOLEAN :
              IF ok
              THEN /\ meta_json' = [meta_json EXCEPT ![p] = WrittenDescriptor(p)]
                   /\ dir' = [dir EXCEPT ![p] = "full"]
                   /\ Goto("fact") /\ Log("meta")
              ELSE /\ UNCHANGED <<meta_json, dir>>
                   /\ Goto("fact") /\ Log("meta_failed")
    /\ UNCHANGED <<manifest, meili_manifest, release_info, version_info,
                   download_url, scratch, env, sel_vars,
                   target_dir, fetch_log>>

\* the append to /etc/environment and return True; an exception lands in the
\* except branch of the try, which removes target_dir
install_plugin_fact ==
    /\ pc = "install"
    /\ step = "fact"
    /\ Plugins[cur] \in CatalogPlugins
    /\ LET p == Plugins[cur]
       IN  \E ok \in BOOLEAN :
              IF ok
              THEN /\ env' = write_environment(env, EnvVarName(p), version_info[p].version)
                   /\ UNCHANGED <<dir, meta_json>>
                   /\ Return(TRUE, "Success") /\ Log("fact")
              ELSE /\ UNCHANGED env
                   /\ dir' = [dir EXCEPT ![p] = "absent"]
                   /\ meta_json' = [meta_json EXCEPT ![p] = NoDescriptor]
                   /\ Return(FALSE, "FactFailed") /\ Log("fact_failed")
    /\ UNCHANGED <<manifest, meili_manifest, release_info, version_info,
                   download_url, scratch, sel_vars,
                   target_dir, fetch_log>>

(***************************************************************************)
(* install_customtabs_plugin and install_enhanced_plugin                   *)
(***************************************************************************)
\* the GET of releases/latest, tag_name, the scan for the zip asset and the
\* fixed version
install_customtabs_release ==
    /\ pc = "install"
    /\ step = "release"
    /\ Plugins[cur] = "CustomTabs"
    /\ LET p == Plugins[cur]
       IN  \E r \in CustomTabsReleases :
              /\ release_info' = [release_info EXCEPT ![p] = r]
              /\ CASE ~r.ok ->
                        /\ Return(FALSE, "Unreachable") /\ Log("release_failed")
                        /\ UNCHANGED <<version_info, download_url>>
                   [] r.ok /\ FirstZipAsset(r.assets) = 0 ->
                        /\ Return(FALSE, "NotFound") /\ Log("release_notfound")
                        /\ UNCHANGED <<version_info, download_url>>
                   [] r.ok /\ FirstZipAsset(r.assets) # 0 ->
                        /\ Goto("download") /\ Log("release")
                        /\ version_info' = [version_info EXCEPT ![p] =
                              [version |-> "1.0.0.0", targetAbi |-> Abi_10_11,
                               sourceUrl |-> ""]]
                        /\ download_url' = [download_url EXCEPT ![p] =
                              r.assets[FirstZipAsset(r.assets)].browser_download_url]
    /\ UNCHANGED <<manifest, meili_manifest, meta_json, scratch, dir, env, sel_vars,
                   target_dir, fetch_log>>

\* the GET of releases/latest; version = tag_name, the URL is built from it
install_enhanced_release ==
    /\ pc = "install"
    /\ step = "release"
    /\ Plugins[cur] = "Enhanced"
    /\ LET p == Plugins[cur]
       IN  \E r \in EnhancedReleases :
              /\ release_info' = [release_info EXCEPT ![p] = r]
              /\ IF ~r.ok
                 THEN /\ Return(FALSE, "Unreachable") /\ Log("release_failed")
                      /\ UNCHANGED <<version_info, download_url>>
                 ELSE /\ Goto("download") /\ Log("release")
                      /\ version_info' = [version_info EXCEPT ![p] =
                            [version |-> r.tag_name, targetAbi |-> Abi_10_11,
                             sourceUrl |-> ""]]
                      /\ download_url' = [download_url EXCEPT ![p] =
                            "https://github.com/n00bcodr/Jellyfin-Enhanced/releases/download/"
                               \o r.tag_name \o "/Jellyfin.Plugin.JellyfinEnhanced_10.11.0.zip"]
    /\ UNCHANGED <<manifest, meili_manifest, meta_json, scratch, dir, env, sel_vars,
                   target_dir, fetch_log>>

\* target_dir.mkdir inside the installer's try: an OSError gives return False
install_hosting_mkdir ==
    /\ pc = "install"
    /\ step = "mkdir"
    /\ Plugins[cur] \in HostingPlugins
    /\ LET p == Plugins[cur]
       IN  \E ok \in BOOLEAN :
              IF ok
              THEN /\ dir' = [dir EXCEPT ![p] = IF @ = "absent" THEN "empty" ELSE @]
                   /\ target_dir' = [target_dir EXCEPT ![p] =
                                        TargetDir(p, version_info[p].version)]
                   /\ Goto("extract") /\ Log("mkdir")
              ELSE /\ UNCHANGED <<dir, target_dir>>
                   /\ Return(FALSE, "MkdirFailed") /\ Log("mkdir_failed")
    /\ UNCHANGED <<manifest, meili_manifest, release_info, version_info,
                   download_url, meta_json, scratch, env, sel_vars,
                   fetch_log>>

\* extractall; the except branch only prints and returns False
install_hosting_extract ==
    /\ pc = "install"
    /\ step = "extract"
    /\ Plugins[cur] \in HostingPlugins
    /\ LET p == Plugins[cur]
       IN  \E o \in ExtractOutcomes :
              CASE o = "ok" ->
                     /\ dir' = [dir EXCEPT ![p] = "artifact"]
                     /\ Goto("meta") /\ Log("extract")
                [] o = "bad_archive" ->
                     /\ UNCHANGED dir
                     /\ Return(FALSE, "ExtractFailed") /\ Log("extract_failed")
                [] o = "partial" ->
                     /\ dir' = [dir EXCEPT ![p] = "partial"]
                     /\ Return(FALSE, "ExtractFailed") /\ Log("extract_failed")
    /\ UNCHANGED <<manifest, meili_manifest, release_info, version_info,
                   download_url, meta_json, scratch, env, sel_vars,
                   target_dir, fetch_log>>

\* the append to /etc/environment, os.remove(temp_zip), return True; an
\* exception of the append gives return False with nothing removed
install_hosting_fact ==
    /\ pc = "install"
    /\ step = "fact"
    /\ Plugins[cur] \in HostingPlugins
    /\ LET p == Plugins[cur]
       IN  \E ok \in BOOLEAN :
              IF ok
              THEN /\ env' = write_environment(env, EnvVarName(p), version_info[p].version)
                   /\ scratch' = [scratch EXCEPT ![p] = FALSE]
                   /\ Return(TRUE, "Success") /\ Log("fact")
              ELSE /\ UNCHANGED <<env, scratch>>
                   /\ Return(FALSE, "FactFailed") /\ Log("fact_failed")
    /\ UNCHANGED <<manifest, meili_manifest, release_info, version_info,
                   download_url, meta_json, dir, sel_vars,
                   target_dir, fetch_log>>

(***************************************************************************)
(* The run                                                                 *)
(***************************************************************************)
Next ==
    \/ main_download_manifest
    \/ install_plugin_select
    \/ install_download
    \/ install_plugin_mkdir
    \/ install_plugin_extract
    \/ install_create_meta_json
    \/ install_plugin_fact
    \/ install_customtabs_release
    \/ install_enhanced_release
    \/ install_hosting_mkdir
    \/ install_hosting_extract
    \/ install_hosting_fact
    \/ install_meilisearch_plugin
    \/ main_summary

Spec == Init /\ [][Next]_vars

(***************************************************************************)
(* Selection on its own: get_highest_version over all small catalogs       *)
(***************************************************************************)
\* the identities asked for: that of the record under selection, that of
\* another record, and one no record carries
SelRequests == {"g1", "g2", "g0"}

SelVersionLists == UNION {VersionLists(n) : n \in 0..MaxVersions}

\* the records of "g1": without 'versions', or with any release list
SelRecords ==
    {CatalogRecord("g1", FALSE, <<>>)}
        \cup {CatalogRecord("g1", TRUE, vl) : vl \in SelVersionLists}

\* a record of another plugin, with a marker int() rejects
OtherRecord == CatalogRecord("g2", TRUE, <<ReleaseEntry(1, Abi_10_x)>>)

\* a second record carrying the guid "g1", behind the first
LaterRecord == CatalogRecord("g1", TRUE, <<ReleaseEntry(1, Abi_10_11)>>)

\* the catalogs: optionally another plugin's record, optionally a record of
\* "g1", optionally a later record with the same guid
SelManifests ==
    {Manifest(before \o record \o after) :
        before \in {<<>>, <<OtherRecord>>},
        record \in {<<>>} \cup {<<r>> : r \in SelRecords},
        after \in {<<>>, <<LaterRecord>>}}

InitSel ==
    /\ pc = "select"
    /\ IdleRun
    /\ IdleSyn
    /\ sel_manifest \in SelManifests
    /\ sel_guid \in SelRequests
    /\ sel_result = Pending

\* one call get_highest_version(sel_manifest, sel_guid, ...)
select_call ==
    /\ pc = "select"
    /\ sel_result = Pending
    /\ sel_result' = get_highest_version(sel_manifest, sel_guid)
    /\ UNCHANGED <<run_vars, sel_manifest, sel_guid, syn_inputs, syn_result>>

NextSel == select_call

SpecSel == InitSel /\ [][NextSel]_vars

(***************************************************************************)
(* The descriptor on its own: create_meta_json and find_image_file over    *)
(* all dictionaries with missing keys and all small directories            *)
(***************************************************************************)
MetadataKeys == {"category", "description", "guid", "name", "overview", "owner"}

FullMetadata ==
    [category |-> "Tools", description |-> "A plugin", guid |-> "g1",
     name |-> "Plugin", overview |-> "Short", owner |-> "someone"]

VersionInfoKeys == {"changelog", "targetAbi", "timestamp", "version"}

FullVersionInfo ==
    [changelog |-> "Fixes", targetAbi |-> Abi_10_9, timestamp |-> "2025-01-01T00:00:00Z",
     version |-> "2.0.0.0"]

\* the dict d with only the keys of keys
Restrict(d, keys) == [k \in keys |-> d[k]]

SynFiles ==
    {File_icon_png, File_banner_jpg, File_cover_jpeg, File_logo_svg, File_anim_gif,
     File_readme_txt, File_thumb_png}

\* the directories: up to MaxFiles distinct files in any listing order
SynListings ==
    UNION {{f \in [1..n -> SynFiles] : \A i, j \in 1..n : f[i] = f[j] => i = j} :
             n \in 0..MaxFiles}

\* target_dir under the default plugin_dir and under another one
DefaultTarget == JellyfinPlugins \o <<"/", "Plugin_2.0.0.0">>

OtherTarget == <<"/", "o", "p", "t", "/", "p", "l", "u", "g", "i", "n", "s">> \o <<"/", "Plugin_2.0.0.0">>

\* the plugin_name handed to create_meta_json
SynPluginName == "Fallback"

InitSyn ==
    /\ pc = "synthesize"
    /\ IdleRun
    /\ IdleSel
    /\ syn_result = NoMeta
    /\ \/ /\ syn_metadata \in {Restrict(FullMetadata, k) : k \in SUBSET MetadataKeys}
          /\ syn_version_info \in {Restrict(FullVersionInfo, k) : k \in SUBSET VersionInfoKeys}
          /\ syn_target = DefaultTarget
          /\ syn_listing = ArchiveListing
       \/ /\ syn_metadata = FullMetadata
          /\ syn_version_info = FullVersionInfo
          /\ syn_target \in {DefaultTarget, OtherTarget}
          /\ syn_listing \in SynListings

\* one call create_meta_json(target_dir, plugin_metadata, version_info, plugin_name),
\* up to the meta dictionary
create_meta_json_call ==
    /\ pc = "synthesize"
    /\ syn_result = NoMeta
    /\ syn_result' = create_meta_json(syn_metadata, syn_version_info, SynPluginName,
                                      find_image_file(syn_target, syn_listing))
    /\ UNCHANGED <<run_vars, sel_manifest, sel_guid, sel_result, syn_inputs>>

NextSyn == create_meta_json_call

SpecSyn == InitSyn /\ [][NextSyn]_vars

(***************************************************************************)
(* Properties                                                              *)
(***************************************************************************)
\* the integer tuple each well-formed marker of AbiStrings denotes, written out
AbiTuple(abi) ==
    CASE abi = Abi_10_9  -> <<10, 9, 0, 0>>
      [] abi = Abi_10_10 -> <<10, 10, 0, 0>>
      [] abi = Abi_10_11 -> <<10, 11, 0, 0>>

WellFormedAbi(abi) == abi \in {Abi_10_9, Abi_10_10, Abi_10_11}

\* rank of a four-component tuple with components below 100
Rank(t) == ((t[1] * 100 + t[2]) * 100 + t[3]) * 100 + t[4]

\* the record of a catalog that an identity selects has releases
HasRecord(m, g) == m.kind = "list" /\ \E i \in 1..Len(m.items) : m.items[i].guid = g

SelectedRecord(m, g) == m.items[FindPlugin(m.items, g)]

HasReleases(m, g) ==
    /\ HasRecord(m, g)
    /\ SelectedRecord(m, g).hasVersions
    /\ SelectedRecord(m, g).versions # <<>>

\* C1: for a catalog whose selected record has a non-empty list of releases
\* with well-formed markers, get_highest_version returns an entry of that
\* record whose marker, as a tuple of integers, is not below the marker of any
\* entry of the record (numeric, not lexicographic: 10.10.0.0 beats 10.9.0.0).
C1_SelectsNumericMaximum ==
    (/\ sel_result # Pending
     /\ HasReleases(sel_manifest, sel_guid)
     /\ \A i \in 1..Len(SelectedRecord(sel_manifest, sel_guid).versions) :
           WellFormedAbi(SelectedRecord(sel_manifest, sel_guid).versions[i].targetAbi))
    => LET versions == SelectedRecord(sel_manifest, sel_guid).versions
       IN  /\ sel_result.status = "Found"
           /\ \E i \in 1..Len(versions) : versions[i] = sel_result.best
           /\ \A i \in 1..Len(versions) :
                 Rank(AbiTuple(sel_result.best.targetAbi))
                    >= Rank(AbiTuple(versions[i].targetAbi))

\* a record listing 10.9.0.0 and 10.10.0.0, and 10.10.0.0 was returned
C1_Witness ==
    /\ sel_result.status = "Found"
    /\ sel_result.best.targetAbi = Abi_10_10
    /\ \E i \in 1..Len(SelectedRecord(sel_manifest, sel_guid).versions) :
          SelectedRecord(sel_manifest, sel_guid).versions[i].targetAbi = Abi_10_9

\* C2: at the end of a run, every plugin requested after one whose installer
\* failed or raised has been attempted, and the tally counts the installers
\* that returned.
C2_FailureDoesNotStopLaterPlugins ==
    pc = "exited" =>
       /\ \A p, q \in PluginNames :
             (Position(p) < Position(q) /\ Returned(p) /\ outcome[p] # "Success")
                => Returned(q)
       /\ success_count = Cardinality({p \in PluginNames : outcome[p] = "Success"})
       /\ fail_count = Cardinality({p \in PluginNames :
                                      Returned(p) /\ outcome[p] # "Success"})

\* C3: a run that reaches its summary has attempted every requested plugin and
\* counted each exactly once; with exactly one failure the tally is (N-1, 1).
C3_TallyCountsEveryPlugin ==
    (pc = "exited" /\ exit_code = 0) =>
       /\ \A p \in PluginNames : Returned(p)
       /\ success_count + fail_count = Len(Plugins)
       /\ (fail_count = 1 => success_count = Len(Plugins) - 1)

\* C4: once an installer has returned, a failed extraction has left no
\* destination directory, and the scratch archive is gone whether extraction
\* succeeded or failed.
C4_ExtractionCleansUp ==
    \A p \in PluginNames :
       Returned(p) =>
          /\ InTrace(p, "extract_failed") => dir[p] = "absent"
          /\ (InTrace(p, "extract") \/ InTrace(p, "extract_failed")) => ~scratch[p]

\* C5: every run that ends, ends with exit status 0.
C5_AlwaysSoftSuccess == pc = "exited" => exit_code = 0

\* the catalog of p has no record for p, or a record without releases
NoReleases(p) == ~HasReleases(CatalogOf(p), Guid(p))

\* C6: when the catalog has no record for the identity, or the record has an
\* empty or missing release list, get_highest_version returns (None, None)
\* without raising, and install_plugin returns failure for that plugin having
\* started nothing else.
C6_AbsentIdentityIsNotFound ==
    \A p \in CatalogPlugins :
       ((InTrace(p, "select") \/ InTrace(p, "select_notfound")
            \/ InTrace(p, "select_raised")) /\ NoReleases(p))
       => /\ InTrace(p, "select_notfound")
          /\ outcome[p] = "NotFound"
          /\ ~scratch[p] /\ dir[p] = "absent" /\ FactLines(p) = {}

\* NotFound both for a record without 'versions' and for an identity that no
\* record of a non-empty catalog carries
C6_Witness ==
    /\ outcome["Meilisearch"] = "NotFound"
    /\ HasRecord(meili_manifest, Guid("Meilisearch"))
    /\ ~SelectedRecord(meili_manifest, Guid("Meilisearch")).hasVersions
    /\ outcome["PluginPages"] = "NotFound"
    /\ ~HasRecord(manifest, Guid("PluginPages"))

\* C7: when the primary catalog could not be fetched and the plugins of the
\* alternate sources were installed, the run ends with a failure count that
\* counts exactly the plugins of the primary catalog.
C7_PrimaryFailureIsCounted ==
    (/\ pc = "exited"
     /\ manifest.kind = "None"
     /\ \A p \in PluginNames \ PrimaryPlugins : outcome[p] = "Success")
    => fail_count = Cardinality(PrimaryPlugins)

\* the state part of C8
C8_OneLinePerSuccess ==
    /\ \A p \in PluginNames :
          /\ outcome[p] = "Success" =>
                /\ Cardinality(FactLines(p)) = 1
                /\ \A i \in FactLines(p) : env[i].value = version_info[p].version
          /\ outcome[p] # "Success" => FactLines(p) = {}
    /\ Appended = Cardinality({p \in PluginNames : outcome[p] = "Success"})

C9_FailedDownloadLeavesNoScratch ==
    \A p \in PluginNames : outcome[p] = "DownloadFailed" => ~scratch[p]

\* C10: a failed write of meta.json does not change the outcome: the installer
\* returns success exactly when the fact was appended, as it does after a
\* written descriptor, and when the append went through the extracted
\* directory is kept and the fact is there.
C10_DescriptorFailureKeepsOutcome ==
    \A p \in PluginNames :
       (Returned(p) /\ InTrace(p, "meta_failed")) =>
          /\ outcome[p] \in {"Success", "FactFailed"}
          /\ outcome[p] = "Success" <=> ~InTrace(p, "fact_failed")
          /\ outcome[p] = "Success" =>
                /\ dir[p] = "artifact"
                /\ Cardinality(FactLines(p)) = 1

\* both kinds of installer returned success after a failed descriptor write
C10_Witness ==
    /\ InTrace("FileTransformation", "meta_failed")
    /\ outcome["FileTransformation"] = "Success"
    /\ dir["FileTransformation"] = "artifact"
    /\ InTrace("Enhanced", "meta_failed")
    /\ outcome["Enhanced"] = "Success"

\* the descriptor specification has built its dictionary
Synthesized == syn_result # NoMeta

\* the descriptive fields the claim gives the empty string as default
EmptyDefaultFields ==
    {"changelog", "description", "guid", "overview", "owner", "timestamp", "version"}

Missing(key) == key \notin (DOMAIN syn_metadata \cup DOMAIN syn_version_info)

\* the parts of C11 that hold as claimed
C11_OtherDefaults ==
    /\ \A key \in EmptyDefaultFields : Missing(key) => syn_result[key] = ""
    /\ Missing("targetAbi") =>
          syn_result.targetAbi = <<"1", "0", ".", "1", "1", ".", "0", ".", "0">>
    /\ Missing("name") => syn_result.name = SynPluginName
    /\ syn_result.status = "Active"
    /\ syn_result.autoUpdate = TRUE
    /\ syn_result.assemblies = <<>>

\* C11 as claimed: every missing descriptive field, category included, is the
\* empty string; a missing marker is the baseline, a missing name the fallback;
\* status "Active", auto-update true, no assemblies.
C11_MissingFieldsAreEmpty ==
    Synthesized =>
       /\ C11_OtherDefaults
       /\ Missing("category") => syn_result.category = ""

\* C11 as amended: a missing category is "General"; every other missing
\* descriptive field is the empty string, a missing marker is 10.11.0.0, a
\* missing name the fallback; status "Active", auto-update true, no assemblies.
C11_MissingFieldsDefault ==
    Synthesized =>
       /\ C11_OtherDefaults
       /\ Missing("category") => syn_result.category = "General"

\* a descriptor built from dictionaries without any key
C11_Witness ==
    /\ Synthesized
    /\ \A key \in MetadataKeys \cup VersionInfoKeys : Missing(key)
    /\ syn_result.name = SynPluginName
    /\ syn_result.category = "General"

\* place of a file's extension in the order png, jpg, jpeg, svg, gif; 0 for
\* any other file
ExtensionRank(name) ==
    CASE name \in {File_icon_png, File_thumb_png} -> 1
      [] name = File_banner_jpg -> 2
      [] name = File_cover_jpeg -> 3
      [] name = File_logo_svg   -> 4
      [] name = File_anim_gif   -> 5
      [] OTHER -> 0

\* the same, with 0 for the files whose name begins with a dot
VisibleRank(name) == IF name = File_thumb_png THEN 0 ELSE ExtensionRank(name)

\* the rewritten path of a file of syn_target
RewrittenPath(name) ==
    IF syn_target = DefaultTarget
    THEN <<"/", "c", "o", "n", "f", "i", "g", "/", "p", "l", "u", "g", "i", "n", "s",
           "/", "Plugin_2.0.0.0", "/">> \o name
    ELSE syn_target \o <<"/">> \o name

Least(S) == CHOOSE x \in S : \A y \in S : x <= y

\* C12 as claimed: the image path is the rewritten path of a file whose
\* extension comes first in png, jpg, jpeg, svg, gif among the extensions
\* present in the directory, and empty when no file has one of them.
C12_FirstExtensionPresent ==
    Synthesized =>
       LET ranks == {ExtensionRank(syn_listing[i]) : i \in 1..Len(syn_listing)} \ {0}
       IN  IF ranks = {} THEN syn_result.imagePath = <<>>
           ELSE \E i \in 1..Len(syn_listing) :
                   /\ ExtensionRank(syn_listing[i]) = Least(ranks)
                   /\ syn_result.imagePath = RewrittenPath(syn_listing[i])

\* C12 as amended: the same over the files whose name does not begin with a
\* dot (the '*' of the glob pattern matches no hidden file).
C12_FirstVisibleExtension ==
    Synthesized =>
       LET ranks == {VisibleRank(syn_listing[i]) : i \in 1..Len(syn_listing)} \ {0}
       IN  IF ranks = {} THEN syn_result.imagePath = <<>>
           ELSE \E i \in 1..Len(syn_listing) :
                   /\ VisibleRank(syn_listing[i]) = Least(ranks)
                   /\ syn_result.imagePath = RewrittenPath(syn_listing[i])

\* banner.jpg listed before icon.png under /jellyfin/plugins: icon.png's path
\* under /config/plugins came back
C12_Witness ==
    /\ Synthesized
    /\ syn_listing = <<File_banner_jpg, File_icon_png>>
    /\ syn_target = DefaultTarget
    /\ syn_result.imagePath = RewrittenPath(File_icon_png)

\* C13: a catalog that is the empty list is a reachable catalog with no
\* plugins: once the run has ended, every plugin sourced from it was attempted
\* and ended NotFound, not skipped and not reported as an unreachable catalog.
C13_EmptyCatalogIsNotFound ==
    \A p \in CatalogPlugins :
       (pc = "exited" /\ exit_code = 0 /\ CatalogOf(p) = Manifest(<<>>)) =>
          /\ Returned(p)
          /\ outcome[p] = "NotFound"

\* place of a logged step in the order selection, fetch, (directory,) unpack,
\* descriptor, fact; the catalog fetch of the Meilisearch installer comes first
StepRank(event) ==
    CASE event \in {"manifest", "manifest_failed"} -> 0
      [] event \in {"select", "select_notfound", "select_raised",
                    "release", "release_failed", "release_notfound"} -> 1
      [] event \in {"download", "download_failed"} -> 2
      [] event \in {"mkdir", "mkdir_raised", "mkdir_failed"} -> 3
      [] event \in {"extract", "extract_failed"} -> 4
      [] event \in {"meta", "meta_failed"} -> 5
      [] event \in {"fact", "fact_failed"} -> 6

\* the steps after which an installer goes on
Continuing ==
    {"manifest", "select", "release", "download", "mkdir", "extract", "meta",
     "meta_failed"}

HasStep(p, ranks) == \E i \in 1..Len(trace[p]) : StepRank(trace[p][i]) \in ranks

\* the lines appended to /etc/environment for p during the run
AppendedFacts(p) == {i \in FactLines(p) : i > Len(InitialEnvironment)}

\* C14: every installer takes its steps in the strict order selection, fetch,
\* unpack, descriptor, fact, each step directly after the one before and
\* nothing after a failed selection, fetch or unpack; NotFound leaves no
\* download, scratch file or directory, DownloadFailed no directory and no
\* extraction, ExtractFailed no descriptor and no fact.
C14_StrictOrderAndShortCircuit ==
    \A p \in PluginNames :
       /\ \A i \in 1..Len(trace[p]) :
             /\ i > 1 => StepRank(trace[p][i]) = StepRank(trace[p][i - 1]) + 1
             /\ i < Len(trace[p]) => trace[p][i] \in Continuing
       /\ trace[p] # <<>> => StepRank(trace[p][1]) = IF p = "Meilisearch" THEN 0 ELSE 1
       /\ outcome[p] = "NotFound" =>
             /\ ~HasStep(p, 2..6)
             /\ ~scratch[p]
             /\ dir[p] = "absent"
       /\ outcome[p] = "DownloadFailed" =>
             /\ ~HasStep(p, 3..6)
             /\ dir[p] = "absent"
       /\ outcome[p] = "ExtractFailed" =>
             /\ ~HasStep(p, 5..6)
             /\ ~meta_json[p].written
             /\ AppendedFacts(p) = {}

\* one run in which a catalog installer ended NotFound, a hosting installer
\* failed its download and another installer failed its extraction
C14_Witness ==
    /\ outcome["FileTransformation"] = "NotFound"
    /\ outcome["CustomTabs"] = "DownloadFailed"
    /\ outcome["Enhanced"] = "ExtractFailed"
    /\ outcome["PluginPages"] = "Success"
    /\ trace["PluginPages"] = <<"select", "download", "mkdir", "extract", "meta", "fact">>

\* C15: once an installer has returned, the destination directory of its
\* plugin is absent or holds both the unpacked artifact and the descriptor;
\* it is never left empty, partially extracted or without its descriptor.
C15_DirectoryAbsentOrComplete ==
    \A p \in PluginNames :
       (Returned(p) /\ outcome[p] # "Raised") => dir[p] \in {"absent", "full"}

\* the installer of p has begun and has not returned
InProgress(p) == trace[p] # <<>> /\ ~Returned(p)

\* no catalog source is fetched twice
FetchedAtMostOnce ==
    \A i, j \in 1..Len(fetch_log) : fetch_log[i].url = fetch_log[j].url => i = j

\* installers run one at a time, in request order
OneAtATime ==
    /\ Cardinality({p \in PluginNames : InProgress(p)}) <= 1
    /\ \A p \in PluginNames :
          /\ InProgress(p) => pc = "install" /\ p = Plugins[cur]
          /\ \A q \in PluginNames :
                (trace[p] # <<>> /\ Position(q) > Position(p) /\ trace[q] # <<>>) =>
                   Returned(p)

\* C16 as claimed: no catalog source is fetched twice, every catalog fetch
\* comes before any installer has begun, and installers run one at a time.
C16_AllCatalogsFetchedFirst ==
    /\ FetchedAtMostOnce
    /\ \A i \in 1..Len(fetch_log) : fetch_log[i].started = {}
    /\ OneAtATime

\* C16 as amended: no catalog source is fetched twice; the primary catalog is
\* fetched before any installer has begun; the Meilisearch catalog is fetched
\* by the Meilisearch installer as its first step, after every installer
\* before it has begun and returned; installers run one at a time.
C16_CatalogsFetchedOnceInstallsInTurn ==
    /\ FetchedAtMostOnce
    /\ \A i \in 1..Len(fetch_log) :
          /\ fetch_log[i].url \in {"MANIFEST_URL", "MEILISEARCH_MANIFEST_URL"}
          /\ fetch_log[i].url = "MANIFEST_URL" => i = 1 /\ fetch_log[i].started = {}
          /\ fetch_log[i].url = "MEILISEARCH_MANIFEST_URL" =>
                /\ i = 2
                /\ {"CustomTabs", "Enhanced"} \subseteq fetch_log[i].started
                /\ "Meilisearch" \notin fetch_log[i].started
                /\ \A p \in fetch_log[i].started : Returned(p)
                /\ trace["Meilisearch"] # <<>>
    /\ trace["Meilisearch"] # <<>> => Len(fetch_log) = 2
    /\ pc # "fetch" => Len(fetch_log) >= 1
    /\ OneAtATime

\* a finished run of all five installers: two fetches, the second after the
\* four earlier installers
C16_Witness ==
    /\ pc = "exited"
    /\ Len(fetch_log) = 2
    /\ fetch_log[2].url = "MEILISEARCH_MANIFEST_URL"
    /\ fetch_log[2].started = {"FileTransformation", "PluginPages", "CustomTabs", "Enhanced"}
    /\ \A p \in PluginNames : Returned(p)

\* C17: when several releases of the selected record carry the maximal marker
\* (equal integer tuples), get_highest_version returns the one listed first.
C17_FirstListedWinsTies ==
    (/\ sel_result # Pending
     /\ HasReleases(sel_manifest, sel_guid)
     /\ \A i \in 1..Len(SelectedRecord(sel_manifest, sel_guid).versions) :
           WellFormedAbi(SelectedRecord(sel_manifest, sel_guid).versions[i].targetAbi))
    => LET versions == SelectedRecord(sel_manifest, sel_guid).versions
           IsMaximal(i) ==
              \A j \in 1..Len(versions) :
                 Rank(AbiTuple(versions[i].targetAbi)) >= Rank(AbiTuple(versions[j].targetAbi))
       IN  \E i \in 1..Len(versions) :
              /\ IsMaximal(i)
              /\ \A j \in 1..(i - 1) : ~IsMaximal(j)
              /\ sel_result.status = "Found"
              /\ sel_result.best = versions[i]

\* two releases listed with the same maximal marker, and the first came back
C17_Witness ==
    /\ sel_result # Pending
    /\ HasReleases(sel_manifest, sel_guid)
    /\ LET versions == SelectedRecord(sel_manifest, sel_guid).versions
       IN  /\ Len(versions) >= 2
           /\ versions[1].targetAbi = Abi_10_11
           /\ versions[2].targetAbi = Abi_10_11
           /\ versions[1].version # versions[2].version
           /\ sel_result.status = "Found"
           /\ sel_result.best = versions[1]

\* the asset names of the releases that end with .zip, written out
IsZipName(name) ==
    name \in {<<"a", ".", "z", "i", "p">>, <<"b", ".", "z", "i", "p">>}

\* the URL of the first asset in listing order whose name ends with .zip
IsFirstZipUrl(assets, url) ==
    \E i \in 1..Len(assets) :
       /\ IsZipName(assets[i].name)
       /\ \A j \in 1..(i - 1) : ~IsZipName(assets[j].name)
       /\ url = assets[i].browser_download_url

HasZip(assets) == \E i \in 1..Len(assets) : IsZipName(assets[i].name)

\* the directory <displayName>_<v> under /jellyfin/plugins
VersionedDir(p, v) ==
    <<"/", "j", "e", "l", "l", "y", "f", "i", "n", "/", "p", "l", "u", "g", "i", "n", "s",
      "/", p \o "_" \o v>>

\* the installer of p has installed version v: directory name, descriptor and
\* environment fact carry v
InstalledAs(p, v) ==
    /\ InTrace(p, "mkdir") => target_dir[p] = VersionedDir(p, v)
    /\ meta_json[p].written => meta_json[p].meta.version = v
    /\ outcome[p] = "Success" =>
          /\ AppendedFacts(p) # {}
          /\ \A i \in AppendedFacts(p) : env[i].value = v

\* C18 as claimed: each hosting installer installs the release's tag name as
\* the version (directory name, descriptor version, environment fact) and
\* downloads the first asset whose name ends with .zip, NotFound if none.
C18_TagIsVersionFirstZipIsArtifact ==
    \A p \in HostingPlugins :
       release_info[p].ok =>
          /\ InstalledAs(p, release_info[p].tag_name)
          /\ IF HasZip(release_info[p].assets)
             THEN IsFirstZipUrl(release_info[p].assets, download_url[p])
             ELSE Returned(p) => outcome[p] = "NotFound"

\* C18 as amended: CustomTabs installs the fixed version 1.0.0.0 whatever the
\* tag, and downloads the first asset whose name ends with .zip, NotFound if
\* none; Enhanced installs the tag name as the version and downloads the URL
\* built from the tag without reading the assets, never NotFound.
C18_VersionAndArtifactPerInstaller ==
    /\ release_info["CustomTabs"].ok =>
          /\ InstalledAs("CustomTabs", "1.0.0.0")
          /\ IF HasZip(release_info["CustomTabs"].assets)
             THEN IsFirstZipUrl(release_info["CustomTabs"].assets, download_url["CustomTabs"])
             ELSE /\ outcome["CustomTabs"] = "NotFound"
                  /\ download_url["CustomTabs"] = ""
    /\ release_info["Enhanced"].ok =>
          /\ InstalledAs("Enhanced", release_info["Enhanced"].tag_name)
          /\ download_url["Enhanced"] =
                "https://github.com/n00bcodr/Jellyfin-Enhanced/releases/download/"
                   \o release_info["Enhanced"].tag_name
                   \o "/Jellyfin.Plugin.JellyfinEnhanced_10.11.0.zip"
          /\ outcome["Enhanced"] # "NotFound"

\* both hosting installers succeeded; the CustomTabs release listed a text
\* file and two zip files, and the first zip file was downloaded
C18_Witness ==
    /\ outcome["CustomTabs"] = "Success"
    /\ outcome["Enhanced"] = "Success"
    /\ Len(release_info["CustomTabs"].assets) = 3
    /\ download_url["CustomTabs"] = "https://gh/a.zip"
    /\ meta_json["CustomTabs"].meta.version = "1.0.0.0"
    /\ meta_json["Enhanced"].meta.version = release_info["Enhanced"].tag_name
    /\ target_dir["Enhanced"] = VersionedDir("Enhanced", "v11.1")

====
